---- MODULE Spec2Model ----
(***************************************************************************)
(* Static analysis service: the stylesheet structural analyzer, the markup *)
(* structural analyzer, the markup/stylesheet cross-file validator and the *)
(* in-memory orchestrator that merges their issues into one response.      *)
(*                                                                         *)
(* Text is a sequence of one-character strings.  A markup file is the      *)
(* sequence of items its text lexes to (open tag, close tag, text, inline  *)
(* style block, lexer failure): the lexer is the htmlparser2 library.      *)
(***************************************************************************)
EXTENDS Integers, Sequences, FiniteSets, TLC, Bags

VARIABLES css, html, xv, batch

vars == <<css, html, xv, batch>>

(***************************************************************************)
(* Text helpers                                                            *)
(***************************************************************************)

\* The value JavaScript yields for an index outside a string.
Undefined == "undefined"

\* s[k] with JavaScript's 0-based index; Undefined outside the string.
CharAt(s, k) == IF k >= 0 /\ k < Len(s) THEN s[k + 1] ELSE Undefined

\* s.slice(from) with a 0-based index.
SliceFrom(s, from) == SubSeq(s, from + 1, Len(s))

\* s.startsWith(p)
StartsWith(s, p) == Len(s) >= Len(p) /\ SubSeq(s, 1, Len(p)) = p

\* s.endsWith(p)
EndsWith(s, p) == Len(s) >= Len(p) /\ SubSeq(s, Len(s) - Len(p) + 1, Len(s)) = p

\* The positions (1-based) of character c in s.
Positions(s, c) == {k \in 1..Len(s) : s[k] = c}

\* s.lastIndexOf(c) (0-based, -1 when absent).
LastIndexOf(s, c) ==
    IF Positions(s, c) = {} THEN -1
    ELSE (CHOOSE k \in Positions(s, c) : \A j \in Positions(s, c) : j <= k) - 1

UpperCase == <<"A", "B", "C", "D", "E", "F", "G", "H", "I", "J", "K", "L", "M",
               "N", "O", "P", "Q", "R", "S", "T", "U", "V", "W", "X", "Y", "Z">>

LowerCase == <<"a", "b", "c", "d", "e", "f", "g", "h", "i", "j", "k", "l", "m",
               "n", "o", "p", "q", "r", "s", "t", "u", "v", "w", "x", "y", "z">>

Digits == {"0", "1", "2", "3", "4", "5", "6", "7", "8", "9"}

IsUpper(c) == \E k \in 1..Len(UpperCase) : UpperCase[k] = c

IsLower(c) == \E k \in 1..Len(LowerCase) : LowerCase[k] = c

IsLetter(c) == IsUpper(c) \/ IsLower(c)

\* One character of String.prototype.toLowerCase.
LowerChar(c) ==
    IF IsUpper(c) THEN LowerCase[CHOOSE k \in 1..Len(UpperCase) : UpperCase[k] = c]
    ELSE c

\* s.toLowerCase()
ToLowerCase(s) == [k \in 1..Len(s) |-> LowerChar(s[k])]

\* content.split('\n'): the lines of a text; the empty text has one empty line.
RECURSIVE SplitLines(_)
SplitLines(s) ==
    IF Positions(s, "\n") = {} THEN <<s>>
    ELSE LET k == CHOOSE p \in Positions(s, "\n") : \A q \in Positions(s, "\n") : p <= q
         IN <<SubSeq(s, 1, k - 1)>> \o SplitLines(SubSeq(s, k + 1, Len(s)))

\* (text.match(/\n/g) || []).length
CountNewlines(s) == Cardinality(Positions(s, "\n"))

\* The concatenation of a sequence of texts.
RECURSIVE Flatten(_)
Flatten(ss) == IF ss = <<>> THEN <<>> ELSE Head(ss) \o Flatten(Tail(ss))

(***************************************************************************)
(* Issue model                                                             *)
(***************************************************************************)

\* A CodeIssue.  The message is its rule's fixed text around the values the
\* code interpolates into it: count (a number), name and expected (texts).
Issue(ruleId, filePath, line, column, severity, source, count, name, expected) ==
    [ruleId |-> ruleId, filePath |-> filePath, line |-> line, column |-> column,
     severity |-> severity, source |-> source,
     count |-> count, name |-> name, expected |-> expected]

(***************************************************************************)
(* CSSAnalyzer                                                             *)
(***************************************************************************)

\* The locals of CSSAnalyzer.analyze at its entry.
CSSStart(file) ==
    [pc |-> "scan", file |-> file, lines |-> SplitLines(file.content),
     lineNum |-> 0, i |-> 0,
     braceCount |-> 0, inString |-> FALSE, stringChar |-> "", inComment |-> FALSE,
     issues |-> <<>>]

CSSUnexpectedBrace(s) ==
    Issue("CSS_UNEXPECTED_BRACE", s.file.path, s.lineNum + 1, s.i, "error",
          "css-analyzer", 0, <<>>, <<>>)

\* CSSCountBrace without the reset of the depth after an unexpected }.
CSSCountBrace_NoReset(s, char) ==
    LET counted == IF char = "{" THEN s.braceCount + 1
                   ELSE IF char = "}" THEN s.braceCount - 1
                   ELSE s.braceCount
    IN IF counted < 0
       THEN [s EXCEPT !.issues = Append(@, CSSUnexpectedBrace(s)),
                      !.braceCount = counted, !.i = @ + 1]
       ELSE [s EXCEPT !.braceCount = counted, !.i = @ + 1]

\* The brace counting of one character outside strings and comments.
CSSCountBrace(s, char) ==
    LET counted == IF char = "{" THEN s.braceCount + 1
                   ELSE IF char = "}" THEN s.braceCount - 1
                   ELSE s.braceCount
    IN IF counted < 0
       THEN [s EXCEPT !.issues = Append(@, CSSUnexpectedBrace(s)),
                      !.braceCount = 0, !.i = @ + 1]
       ELSE [s EXCEPT !.braceCount = counted, !.i = @ + 1]

\* CSSChar without the skip of the characters of a string.
CSSChar_BracesInStrings(s) ==
    LET line == s.lines[s.lineNum + 1]
        char == CharAt(line, s.i)
        nextChar == CharAt(line, s.i + 1)
    IN IF ~s.inString /\ ~s.inComment /\ char = "/" /\ nextChar = "*"
       THEN [s EXCEPT !.inComment = TRUE, !.i = @ + 2]
       ELSE IF s.inComment /\ char = "*" /\ nextChar = "/"
       THEN [s EXCEPT !.inComment = FALSE, !.i = @ + 2]
       ELSE IF s.inComment
       THEN [s EXCEPT !.i = @ + 1]
       ELSE IF ~s.inString /\ (char = "\"" \/ char = "'")
       THEN [s EXCEPT !.inString = TRUE, !.stringChar = char, !.i = @ + 1]
       ELSE IF s.inString /\ char = s.stringChar /\ CharAt(line, s.i - 1) # "\\"
       THEN [s EXCEPT !.inString = FALSE, !.i = @ + 1]
       ELSE CSSCountBrace(s, char)

\* CSSChar opening a block comment inside a string as well.
CSSChar_CommentsInStrings(s) ==
    LET line == s.lines[s.lineNum + 1]
        char == CharAt(line, s.i)
        nextChar == CharAt(line, s.i + 1)
    IN IF ~s.inComment /\ char = "/" /\ nextChar = "*"
       THEN [s EXCEPT !.inComment = TRUE, !.i = @ + 2]
       ELSE IF s.inComment /\ char = "*" /\ nextChar = "/"
       THEN [s EXCEPT !.inComment = FALSE, !.i = @ + 2]
       ELSE IF s.inComment
       THEN [s EXCEPT !.i = @ + 1]
       ELSE IF ~s.inString /\ (char = "\"" \/ char = "'")
       THEN [s EXCEPT !.inString = TRUE, !.stringChar = char, !.i = @ + 1]
       ELSE IF s.inString /\ char = s.stringChar /\ CharAt(line, s.i - 1) # "\\"
       THEN [s EXCEPT !.inString = FALSE, !.i = @ + 1]
       ELSE IF s.inString
       THEN [s EXCEPT !.i = @ + 1]
       ELSE CSSCountBrace(s, char)

\* CSSChar without the skip of the characters of a comment.
CSSChar_BracesInComments(s) ==
    LET line == s.lines[s.lineNum + 1]
        char == CharAt(line, s.i)
        nextChar == CharAt(line, s.i + 1)
    IN IF ~s.inString /\ ~s.inComment /\ char = "/" /\ nextChar = "*"
       THEN [s EXCEPT !.inComment = TRUE, !.i = @ + 2]
       ELSE IF s.inComment /\ char = "*" /\ nextChar = "/"
       THEN [s EXCEPT !.inComment = FALSE, !.i = @ + 2]
       ELSE IF ~s.inString /\ ~s.inComment /\ (char = "\"" \/ char = "'")
       THEN [s EXCEPT !.inString = TRUE, !.stringChar = char, !.i = @ + 1]
       ELSE IF s.inString /\ char = s.stringChar /\ CharAt(line, s.i - 1) # "\\"
       THEN [s EXCEPT !.inString = FALSE, !.i = @ + 1]
       ELSE IF s.inString
       THEN [s EXCEPT !.i = @ + 1]
       ELSE CSSCountBrace(s, char)

\* One iteration of the inner loop: the character at column i of the line.
CSSChar(s) ==
    LET line == s.lines[s.lineNum + 1]
        char == CharAt(line, s.i)
        nextChar == CharAt(line, s.i + 1)
    IN IF ~s.inString /\ ~s.inComment /\ char = "/" /\ nextChar = "*"
       THEN [s EXCEPT !.inComment = TRUE, !.i = @ + 2]
       ELSE IF s.inComment /\ char = "*" /\ nextChar = "/"
       THEN [s EXCEPT !.inComment = FALSE, !.i = @ + 2]
       ELSE IF s.inComment
       THEN [s EXCEPT !.i = @ + 1]
       ELSE IF ~s.inString /\ (char = "\"" \/ char = "'")
       THEN [s EXCEPT !.inString = TRUE, !.stringChar = char, !.i = @ + 1]
       ELSE IF s.inString /\ char = s.stringChar /\ CharAt(line, s.i - 1) # "\\"
       THEN [s EXCEPT !.inString = FALSE, !.i = @ + 1]
       ELSE IF s.inString
       THEN [s EXCEPT !.i = @ + 1]
       ELSE CSSCountBrace(s, char)

\* The outer loop's step to the next line.
CSSNextLine(s) == [s EXCEPT !.lineNum = @ + 1, !.i = 0]

CSSEofIssue(s, ruleId, count) ==
    Issue(ruleId, s.file.path, Len(s.lines), 0, "error", "css-analyzer", count, <<>>, <<>>)

\* CSSEndOfFile with the unclosed-brace check off by one.
CSSEndOfFile_OffByOne(s) ==
    LET brace == IF s.braceCount > 1
                 THEN <<CSSEofIssue(s, "CSS_UNCLOSED_BRACE", s.braceCount)>> ELSE <<>>
        comment == IF s.inComment
                   THEN <<CSSEofIssue(s, "CSS_UNCLOSED_COMMENT", 0)>> ELSE <<>>
        string == IF s.inString
                  THEN <<CSSEofIssue(s, "CSS_UNCLOSED_STRING", 0)>> ELSE <<>>
    IN [s EXCEPT !.issues = @ \o brace \o comment \o string, !.pc = "done"]

\* The three checks after the loops, and the return.
CSSEndOfFile(s) ==
    LET brace == IF s.braceCount > 0
                 THEN <<CSSEofIssue(s, "CSS_UNCLOSED_BRACE", s.braceCount)>> ELSE <<>>
        comment == IF s.inComment
                   THEN <<CSSEofIssue(s, "CSS_UNCLOSED_COMMENT", 0)>> ELSE <<>>
        string == IF s.inString
                  THEN <<CSSEofIssue(s, "CSS_UNCLOSED_STRING", 0)>> ELSE <<>>
    IN [s EXCEPT !.issues = @ \o brace \o comment \o string, !.pc = "done"]

CSSAtEndOfInput(s) == s.lineNum >= Len(s.lines)

CSSAtEndOfLine(s) == ~CSSAtEndOfInput(s) /\ s.i >= Len(s.lines[s.lineNum + 1])

\* One step of analyze, whichever applies.
CSSStep(s) ==
    IF CSSAtEndOfInput(s) THEN CSSEndOfFile(s)
    ELSE IF CSSAtEndOfLine(s) THEN CSSNextLine(s)
    ELSE CSSChar(s)

RECURSIVE CSSRun(_)
CSSRun(s) == IF s.pc = "done" THEN s ELSE CSSRun(CSSStep(s))

\* CSSAnalyzer.analyze(file)
CSSAnalyze(file) == CSSRun(CSSStart(file)).issues

(***************************************************************************)
(* Markup items: what the tag-event source (htmlparser2) is given          *)
(***************************************************************************)

\* <name class="..." id="...">
OpenTag(name, class, id) ==
    [type |-> "open", name |-> name, class |-> class, id |-> id, text |-> <<>>,
     isError |-> FALSE]

\* </name>
CloseTag(name) ==
    [type |-> "close", name |-> name, class |-> <<>>, id |-> <<>>, text |-> <<>>,
     isError |-> FALSE]

\* Character data between tags.
Text(text) ==
    [type |-> "text", name |-> <<>>, class |-> <<>>, id |-> <<>>, text |-> text,
     isError |-> FALSE]

\* <style>text</style>
StyleBlock(text) ==
    [type |-> "style", name |-> <<"s", "t", "y", "l", "e">>, class |-> <<>>, id |-> <<>>,
     text |-> text, isError |-> FALSE]

\* The tag-event source throws a value with this message; isError tells
\* whether the value is an instance of Error.
Throw(message, isError) ==
    [type |-> "throw", name |-> <<>>, class |-> <<>>, id |-> <<>>, text |-> message,
     isError |-> isError]

\* The callbacks one item makes: a style block is an open tag, its text and
\* a close tag.
ItemEvents(item) ==
    IF item.type = "style"
    THEN <<OpenTag(item.name, <<>>, <<>>), Text(item.text), CloseTag(item.name)>>
    ELSE <<item>>

RECURSIVE Events(_)
Events(items) ==
    IF items = <<>> THEN <<>> ELSE ItemEvents(Head(items)) \o Events(Tail(items))

(***************************************************************************)
(* HTMLAnalyzer                                                            *)
(***************************************************************************)

selfClosingTags ==
    { <<"a", "r", "e", "a">>, <<"b", "a", "s", "e">>, <<"b", "r">>, <<"c", "o", "l">>,
      <<"e", "m", "b", "e", "d">>, <<"h", "r">>, <<"i", "m", "g">>,
      <<"i", "n", "p", "u", "t">>, <<"l", "i", "n", "k">>, <<"m", "e", "t", "a">>,
      <<"p", "a", "r", "a", "m">>, <<"s", "o", "u", "r", "c", "e">>,
      <<"t", "r", "a", "c", "k">>, <<"w", "b", "r">> }

\* The locals of HTMLAnalyzer.analyze at its entry; events is the history of
\* the callbacks made so far.
HTMLStart(path) ==
    [pc |-> "parse", path |-> path, tagStack |-> <<>>, currentLine |-> 1,
     issues |-> <<>>, events |-> <<>>]

HTMLIssue(s, ruleId, line, name, expected) ==
    Issue(ruleId, s.path, line, 0, "error", "htmlparser2", 0, name, expected)

\* OnOpenTag looking the name up among the void elements as written.
OnOpenTag_CaseSensitiveVoid(s, name) ==
    IF name \notin selfClosingTags
    THEN [s EXCEPT !.tagStack = Append(@, [name |-> ToLowerCase(name),
                                           line |-> s.currentLine])]
    ELSE s

\* onopentag(name, _attribs)
OnOpenTag(s, name) ==
    IF ToLowerCase(name) \notin selfClosingTags
    THEN [s EXCEPT !.tagStack = Append(@, [name |-> ToLowerCase(name),
                                           line |-> s.currentLine])]
    ELSE s

\* OnCloseTag comparing the top of the stack with the name as written.
OnCloseTag_CaseSensitive(s, name) ==
    LET lowerName == ToLowerCase(name)
        lastTag == s.tagStack[Len(s.tagStack)]
    IN IF lowerName \in selfClosingTags THEN s
       ELSE IF Len(s.tagStack) = 0
       THEN [s EXCEPT !.issues =
                 Append(@, HTMLIssue(s, "HTML_UNEXPECTED_CLOSE", s.currentLine, name, <<>>))]
       ELSE IF lastTag.name # name
       THEN [s EXCEPT !.issues =
                 Append(@, HTMLIssue(s, "HTML_TAG_MISMATCH", s.currentLine, name,
                                     lastTag.name))]
       ELSE [s EXCEPT !.tagStack = SubSeq(@, 1, Len(@) - 1)]

\* OnCloseTag popping the top of the stack on a mismatch as well.
OnCloseTag_PopOnMismatch(s, name) ==
    LET lowerName == ToLowerCase(name)
        lastTag == s.tagStack[Len(s.tagStack)]
    IN IF lowerName \in selfClosingTags THEN s
       ELSE IF Len(s.tagStack) = 0
       THEN [s EXCEPT !.issues =
                 Append(@, HTMLIssue(s, "HTML_UNEXPECTED_CLOSE", s.currentLine, name, <<>>))]
       ELSE IF lastTag.name # lowerName
       THEN [s EXCEPT !.issues =
                 Append(@, HTMLIssue(s, "HTML_TAG_MISMATCH", s.currentLine, name,
                                     lastTag.name)),
                      !.tagStack = SubSeq(@, 1, Len(@) - 1)]
       ELSE [s EXCEPT !.tagStack = SubSeq(@, 1, Len(@) - 1)]

\* OnCloseTag unwinding the stack down to the nearest frame of the name on a
\* mismatch.
OnCloseTag_Unwind(s, name) ==
    LET lowerName == ToLowerCase(name)
        lastTag == s.tagStack[Len(s.tagStack)]
        frames == {k \in 1..Len(s.tagStack) : s.tagStack[k].name = lowerName}
        below == IF frames = {} THEN Len(s.tagStack)
                 ELSE (CHOOSE k \in frames : \A j \in frames : j <= k) - 1
    IN IF lowerName \in selfClosingTags THEN s
       ELSE IF Len(s.tagStack) = 0
       THEN [s EXCEPT !.issues =
                 Append(@, HTMLIssue(s, "HTML_UNEXPECTED_CLOSE", s.currentLine, name, <<>>))]
       ELSE IF lastTag.name # lowerName
       THEN [s EXCEPT !.issues =
                 Append(@, HTMLIssue(s, "HTML_TAG_MISMATCH", s.currentLine, name,
                                     lastTag.name)),
                      !.tagStack = SubSeq(@, 1, below)]
       ELSE [s EXCEPT !.tagStack = SubSeq(@, 1, Len(@) - 1)]

\* onclosetag(name)
OnCloseTag(s, name) ==
    LET lowerName == ToLowerCase(name)
        lastTag == s.tagStack[Len(s.tagStack)]
    IN IF lowerName \in selfClosingTags THEN s
       ELSE IF Len(s.tagStack) = 0
       THEN [s EXCEPT !.issues =
                 Append(@, HTMLIssue(s, "HTML_UNEXPECTED_CLOSE", s.currentLine, name, <<>>))]
       ELSE IF lastTag.name # lowerName
       THEN [s EXCEPT !.issues =
                 Append(@, HTMLIssue(s, "HTML_TAG_MISMATCH", s.currentLine, name,
                                     lastTag.name))]
       ELSE [s EXCEPT !.tagStack = SubSeq(@, 1, Len(@) - 1)]

\* ontext(text)
OnText(s, text) == [s EXCEPT !.currentLine = @ + CountNewlines(text)]

\* The catch block around parser.write and parser.end.
HTMLCatch(s, message, isError) ==
    IF isError
    THEN [s EXCEPT !.issues = Append(@, HTMLIssue(s, "HTML_PARSE_ERROR", 1, message, <<>>))]
    ELSE s

\* HTMLUnclosed reporting every frame at the line the input ended on.
HTMLUnclosed_CurrentLine(s) ==
    [s EXCEPT !.issues = @ \o [k \in 1..Len(s.tagStack) |->
                                  HTMLIssue(s, "HTML_UNCLOSED_TAG", s.currentLine,
                                            s.tagStack[k].name, <<>>)],
              !.pc = "done"]

\* The loop over the tags left on the stack, and the return.
HTMLUnclosed(s) ==
    [s EXCEPT !.issues = @ \o [k \in 1..Len(s.tagStack) |->
                                  HTMLIssue(s, "HTML_UNCLOSED_TAG", s.tagStack[k].line,
                                            s.tagStack[k].name, <<>>)],
              !.pc = "done"]

\* One callback of the tag-event source, recorded in the history.
HTMLEvent(s, e) ==
    LET t == [s EXCEPT !.events = Append(@, e)]
    IN IF e.type = "open" THEN OnOpenTag(t, e.name)
       ELSE IF e.type = "close" THEN OnCloseTag(t, e.name)
       ELSE OnText(t, e.text)

\* A failure of the tag-event source: nothing more is delivered.
HTMLFail(s, e) == HTMLUnclosed(HTMLCatch([s EXCEPT !.events = Append(@, e)],
                                         e.text, e.isError))

RECURSIVE HTMLRun(_, _)
HTMLRun(s, events) ==
    IF events = <<>> THEN HTMLUnclosed(s)
    ELSE IF Head(events).type = "throw" THEN HTMLFail(s, Head(events))
    ELSE HTMLRun(HTMLEvent(s, Head(events)), Tail(events))

\* HTMLAnalyzer.analyze(file)
HTMLAnalyze(file) == HTMLRun(HTMLStart(file.path), Events(file.content)).issues

(***************************************************************************)
(* HTMLCSSCrossValidator: the suppression patterns                         *)
(***************************************************************************)

\* What . matches in a pattern: anything but a line terminator.
NoLineTerminator(s) == \A k \in 1..Len(s) : s[k] \notin {"\n", "\r"}

\* ^ open .* close $
Enclosed(s, open, close) ==
    /\ Len(s) >= Len(open) + Len(close)
    /\ StartsWith(s, open)
    /\ EndsWith(s, close)
    /\ NoLineTerminator(SubSeq(s, Len(open) + 1, Len(s) - Len(close)))

\* ^ (w1|w2|...) suffix
PrefixOneOf(s, words, suffix) == \E w \in words : StartsWith(s, w \o suffix)

\* /^-?[mpwh][trblxy]?-/
SpacingShorthand(s) ==
    LET t == IF StartsWith(s, <<"-">>) THEN Tail(s) ELSE s
    IN /\ CharAt(t, 0) \in {"m", "p", "w", "h"}
       /\ \/ CharAt(t, 1) = "-"
          \/ CharAt(t, 1) \in {"t", "r", "b", "l", "x", "y"} /\ CharAt(t, 2) = "-"

DYNAMIC_CLASS_PATTERNS(className) ==
    \/ Enclosed(className, <<"{", "{">>, <<"}", "}">>)
    \/ Enclosed(className, <<"<", "%">>, <<"%", ">">>)
    \/ Enclosed(className, <<"$", "{">>, <<"}">>)
    \/ Enclosed(className, <<"[">>, <<"]">>)
    \/ Enclosed(className, <<":">>, <<>>)
    \/ StartsWith(className, <<"v", "-">>)
    \/ StartsWith(className, <<"n", "g", "-">>)
    \/ StartsWith(className, <<"x", "-">>)

UTILITY_FRAMEWORK_PATTERNS(className) ==
    \/ SpacingShorthand(className)
    \/ PrefixOneOf(className,
                   {<<"f", "l", "e", "x">>, <<"g", "r", "i", "d">>,
                    <<"b", "l", "o", "c", "k">>,
                    <<"i", "n", "l", "i", "n", "e">>,
                    <<"h", "i", "d", "d", "e", "n">>,
                    <<"v", "i", "s", "i", "b", "l", "e">>,
                    <<"a", "b", "s", "o", "l", "u", "t", "e">>,
                    <<"r", "e", "l", "a", "t", "i", "v", "e">>,
                    <<"f", "i", "x", "e", "d">>,
                    <<"s", "t", "i", "c", "k", "y">>},
                   <<>>)
    \/ PrefixOneOf(className,
                   {<<"t", "e", "x", "t">>, <<"b", "g">>,
                    <<"b", "o", "r", "d", "e", "r">>,
                    <<"r", "o", "u", "n", "d", "e", "d">>,
                    <<"s", "h", "a", "d", "o", "w">>,
                    <<"o", "p", "a", "c", "i", "t", "y">>, <<"z">>},
                   <<"-">>)
    \/ PrefixOneOf(className, {<<"s", "m">>, <<"m", "d">>, <<"l", "g">>, <<"x", "l">>,
                    <<"2", "x", "l">>},
                   <<":">>)
    \/ PrefixOneOf(className,
                   {<<"h", "o", "v", "e", "r">>, <<"f", "o", "c", "u", "s">>,
                    <<"a", "c", "t", "i", "v", "e">>,
                    <<"d", "i", "s", "a", "b", "l", "e", "d">>,
                    <<"d", "a", "r", "k">>},
                   <<":">>)
    \/ PrefixOneOf(className,
                   {<<"j", "u", "s", "t", "i", "f", "y">>,
                    <<"i", "t", "e", "m", "s">>,
                    <<"c", "o", "n", "t", "e", "n", "t">>,
                    <<"s", "e", "l", "f">>},
                   <<"-">>)
    \/ PrefixOneOf(className, {<<"g", "a", "p">>, <<"s", "p", "a", "c", "e">>}, <<"-">>)
    \/ PrefixOneOf(className,
                   {<<"f", "o", "n", "t">>,
                    <<"l", "e", "a", "d", "i", "n", "g">>,
                    <<"t", "r", "a", "c", "k", "i", "n", "g">>},
                   <<"-">>)
    \/ PrefixOneOf(className,
                   {<<"o", "v", "e", "r", "f", "l", "o", "w">>,
                    <<"c", "u", "r", "s", "o", "r">>,
                    <<"p", "o", "i", "n", "t", "e", "r">>,
                    <<"t", "r", "a", "n", "s", "i", "t", "i", "o", "n">>,
                    <<"d", "u", "r", "a", "t", "i", "o", "n">>,
                    <<"e", "a", "s", "e">>},
                   <<"-">>)

\* isLikelyDynamicOrFrameworkClass without the loop over the utility patterns.
isLikelyDynamicOrFrameworkClass_DynamicOnly(className) ==
    DYNAMIC_CLASS_PATTERNS(className)

isLikelyDynamicOrFrameworkClass(className) ==
    DYNAMIC_CLASS_PATTERNS(className) \/ UTILITY_FRAMEWORK_PATTERNS(className)

(***************************************************************************)
(* HTMLCSSCrossValidator: definitions and usages                           *)
(***************************************************************************)

\* What \s matches.
IsWhitespace(c) == c \in {" ", "\t", "\n", "\r", "\f"}

\* The least index >= from (1-based) at which p occurs in s, or 0.
IndexOfFrom(s, p, from) ==
    LET at == {k \in from..(Len(s) - Len(p) + 1) : SubSeq(s, k, k + Len(p) - 1) = p}
    IN IF at = {} THEN 0 ELSE CHOOSE k \in at : \A j \in at : k <= j

\* content.replace(/\/\*[\s\S]*?\*\//g, '')
RECURSIVE StripComments(_)
StripComments(s) ==
    IF s = <<>> THEN <<>>
    ELSE LET close == IF StartsWith(s, <<"/", "*">>)
                      THEN IndexOfFrom(s, <<"*", "/">>, 3) ELSE 0
         IN IF close > 0 THEN StripComments(SubSeq(s, close + 2, Len(s)))
            ELSE <<Head(s)>> \o StripComments(Tail(s))

\* The length of the match of /url\s*\([^)]*\)/i at the start of s, or 0.
UrlMatchLen(s) ==
    IF ~(Len(s) >= 3 /\ ToLowerCase(SubSeq(s, 1, 3)) = <<"u", "r", "l">>) THEN 0
    ELSE LET notSpace == {k \in 4..Len(s) : ~IsWhitespace(s[k])}
             open == IF notSpace = {} THEN 0
                     ELSE CHOOSE k \in notSpace : \A j \in notSpace : k <= j
         IN IF open = 0 \/ s[open] # "(" THEN 0
            ELSE IndexOfFrom(s, <<")">>, open + 1)

\* cleaned.replace(/url\s*\([^)]*\)/gi, '')
RECURSIVE StripUrls(_)
StripUrls(s) ==
    IF s = <<>> THEN <<>>
    ELSE IF UrlMatchLen(s) > 0 THEN StripUrls(SubSeq(s, UrlMatchLen(s) + 1, Len(s)))
    ELSE <<Head(s)>> \o StripUrls(Tail(s))

\* SelectorScan collecting the text before every {, at any depth.
RECURSIVE SelectorScan_AllDepths(_, _, _)
SelectorScan_AllDepths(cleaned, k, st) ==
    IF k > Len(cleaned) THEN st
    ELSE LET char == cleaned[k]
             next ==
                 IF char = "{"
                 THEN [depth |-> st.depth + 1, currentSelector |-> <<>>,
                       selectorBlocks |-> Append(st.selectorBlocks, st.currentSelector)]
                 ELSE IF char = "}" THEN [st EXCEPT !.depth = @ - 1]
                 ELSE [st EXCEPT !.currentSelector = Append(@, char)]
         IN SelectorScan_AllDepths(cleaned, k + 1, next)

\* SelectorScan with the depth reset to 0 when it goes negative, as the
\* stylesheet analyzer does.
RECURSIVE SelectorScan_Clamped(_, _, _)
SelectorScan_Clamped(cleaned, k, st) ==
    IF k > Len(cleaned) THEN st
    ELSE LET char == cleaned[k]
             next ==
                 IF char = "{"
                 THEN IF st.depth = 0
                      THEN [depth |-> st.depth + 1, currentSelector |-> <<>>,
                            selectorBlocks |-> Append(st.selectorBlocks, st.currentSelector)]
                      ELSE [st EXCEPT !.depth = @ + 1]
                 ELSE IF char = "}" THEN [st EXCEPT !.depth = IF @ > 0 THEN @ - 1 ELSE 0]
                 ELSE IF st.depth = 0
                 THEN [st EXCEPT !.currentSelector = Append(@, char)]
                 ELSE st
         IN SelectorScan_Clamped(cleaned, k + 1, next)

\* The loop over the cleaned text: st holds depth, currentSelector and
\* selectorBlocks after the characters before position k.
RECURSIVE SelectorScan(_, _, _)
SelectorScan(cleaned, k, st) ==
    IF k > Len(cleaned) THEN st
    ELSE LET char == cleaned[k]
             next ==
                 IF char = "{"
                 THEN IF st.depth = 0
                      THEN [depth |-> st.depth + 1, currentSelector |-> <<>>,
                            selectorBlocks |-> Append(st.selectorBlocks, st.currentSelector)]
                      ELSE [st EXCEPT !.depth = @ + 1]
                 ELSE IF char = "}" THEN [st EXCEPT !.depth = @ - 1]
                 ELSE IF st.depth = 0
                 THEN [st EXCEPT !.currentSelector = Append(@, char)]
                 ELSE st
         IN SelectorScan(cleaned, k + 1, next)

\* selectorBlocks.join(' ')
RECURSIVE JoinSpace(_)
JoinSpace(blocks) ==
    IF blocks = <<>> THEN <<>>
    ELSE IF Len(blocks) = 1 THEN blocks[1]
    ELSE blocks[1] \o <<" ">> \o JoinSpace(Tail(blocks))

\* [a-zA-Z_]
IsNameStart(c) == IsLetter(c) \/ c = "_"

\* [a-zA-Z0-9_-]
IsNameChar(c) == IsLetter(c) \/ c \in Digits \/ c = "_" \/ c = "-"

\* The length of the longest run of [a-zA-Z0-9_-] at the start of s.
RECURSIVE NameRun(_)
NameRun(s) == IF s # <<>> /\ IsNameChar(Head(s)) THEN 1 + NameRun(Tail(s)) ELSE 0

\* The names all matches of /<prefix>([a-zA-Z_][a-zA-Z0-9_-]*)/g capture in s.
RECURSIVE SelectorNames(_, _)
SelectorNames(s, prefix) ==
    IF s = <<>> THEN {}
    ELSE IF Head(s) = prefix /\ Len(s) >= 2 /\ IsNameStart(s[2])
    THEN LET n == NameRun(Tail(s))
         IN {SubSeq(s, 2, n + 1)} \cup SelectorNames(SubSeq(s, n + 2, Len(s)), prefix)
    ELSE SelectorNames(Tail(s), prefix)

\* /\.([a-zA-Z_][a-zA-Z0-9_-]*)/g
classRegex(selectorText) == SelectorNames(selectorText, ".")

\* /#([a-zA-Z_][a-zA-Z0-9_-]*)/g
idRegex(selectorText) == SelectorNames(selectorText, "#")

\* extractCSSDefinitions(content, classes, ids): defs holds the two sets.
extractCSSDefinitions(content, defs) ==
    LET cleaned == StripUrls(StripComments(content))
        scanned == SelectorScan(cleaned, 1, [depth |-> 0, currentSelector |-> <<>>,
                                             selectorBlocks |-> <<>>])
        selectorText == JoinSpace(scanned.selectorBlocks)
    IN [classes |-> defs.classes \cup classRegex(selectorText),
        ids |-> defs.ids \cup idRegex(selectorText)]

\* extractInlineStyles(htmlContent, classes, ids): every <style> block of the
\* markup, in order.
RECURSIVE extractInlineStyles(_, _)
extractInlineStyles(items, defs) ==
    IF items = <<>> THEN defs
    ELSE extractInlineStyles(
             Tail(items),
             IF Head(items).type = "style"
             THEN extractCSSDefinitions(Head(items).text, defs) ELSE defs)

\* attribs.class.split(/\s+/).filter(Boolean)
RECURSIVE ClassNames(_)
ClassNames(s) ==
    IF s = <<>> THEN <<>>
    ELSE IF IsWhitespace(Head(s)) THEN ClassNames(Tail(s))
    ELSE LET spaces == {k \in 1..Len(s) : IsWhitespace(s[k])}
             stop == IF spaces = {} THEN Len(s) + 1
                     ELSE CHOOSE k \in spaces : \A j \in spaces : k <= j
         IN <<SubSeq(s, 1, stop - 1)>> \o ClassNames(SubSeq(s, stop, Len(s)))

CSSUsage(name, type, filePath, line) ==
    [name |-> name, type |-> type, filePath |-> filePath, line |-> line]

\* TagUsage taking the class attribute as one name, without the split.
TagUsage_NoSplit(e, filePath, line) ==
    (IF e.class # <<>> THEN <<CSSUsage(e.class, "class", filePath, line)>> ELSE <<>>)
    \o (IF e.id # <<>> THEN <<CSSUsage(e.id, "id", filePath, line)>> ELSE <<>>)

\* onopentag of extractHTMLUsage: the usages of one open tag.
TagUsage(e, filePath, line) ==
    [k \in 1..Len(ClassNames(e.class)) |->
        CSSUsage(ClassNames(e.class)[k], "class", filePath, line)]
    \o (IF e.id # <<>> THEN <<CSSUsage(e.id, "id", filePath, line)>> ELSE <<>>)

\* The callbacks of extractHTMLUsage over the events; a failure of the
\* tag-event source is caught and ends the collection.
RECURSIVE UsageScan(_, _, _)
UsageScan(events, filePath, currentLine) ==
    IF events = <<>> \/ Head(events).type = "throw" THEN <<>>
    ELSE IF Head(events).type = "open"
    THEN TagUsage(Head(events), filePath, currentLine)
         \o UsageScan(Tail(events), filePath, currentLine)
    ELSE IF Head(events).type = "text"
    THEN UsageScan(Tail(events), filePath, currentLine + CountNewlines(Head(events).text))
    ELSE UsageScan(Tail(events), filePath, currentLine)

\* extractHTMLUsage(file)
extractHTMLUsage(file) == UsageScan(Events(file.content), file.path, 1)

DotCss == <<".", "c", "s", "s">>

DotHtml == <<".", "h", "t", "m", "l">>

DotHtm == <<".", "h", "t", "m">>

IsStylesheetPath(path) == EndsWith(path, DotCss)

IsMarkupPath(path) == EndsWith(path, DotHtml) \/ EndsWith(path, DotHtm)

(***************************************************************************)
(* HTMLCSSCrossValidator.validate                                          *)
(***************************************************************************)

\* The locals of validate at its entry; k is the position of the current
\* loop in the collection it iterates.
XVStart(files) ==
    [pc |-> "definitions", files |-> files, k |-> 1,
     defined |-> [classes |-> {}, ids |-> {}],
     usedSelectors |-> <<>>, issues |-> <<>>]

\* One iteration of the first loop.
XVDefinitions(s) ==
    LET file == s.files[s.k]
        fromCss == IF IsStylesheetPath(file.path)
                   THEN extractCSSDefinitions(file.content, s.defined) ELSE s.defined
        fromHtml == IF IsMarkupPath(file.path)
                    THEN extractInlineStyles(file.content, fromCss) ELSE fromCss
    IN [s EXCEPT !.defined = fromHtml, !.k = @ + 1]

\* One iteration of the second loop.
XVUsage(s) ==
    LET file == s.files[s.k]
    IN [s EXCEPT !.usedSelectors = IF IsMarkupPath(file.path)
                                   THEN @ \o extractHTMLUsage(file) ELSE @,
                 !.k = @ + 1]

XVWarning(usage, ruleId) ==
    Issue(ruleId, usage.filePath, usage.line, 0, "warning", "html-css-validator",
          0, usage.name, <<>>)

\* UsageIssues with the suppression applied to ids as well.
UsageIssues_SuppressIds(usage, defined) ==
    IF isLikelyDynamicOrFrameworkClass(usage.name) THEN <<>>
    ELSE (IF usage.type = "class" /\ usage.name \notin defined.classes
          THEN <<XVWarning(usage, "CSS_CLASS_UNDEFINED")>> ELSE <<>>)
         \o
         (IF usage.type = "id" /\ usage.name \notin defined.ids
          THEN <<XVWarning(usage, "CSS_ID_UNDEFINED")>> ELSE <<>>)

\* The body of the third loop: the issues of one usage against the
\* definition sets.  The continue of a suppressed class skips the id test.
UsageIssues(usage, defined) ==
    IF usage.type = "class" /\ usage.name \notin defined.classes
       /\ isLikelyDynamicOrFrameworkClass(usage.name)
    THEN <<>>
    ELSE (IF usage.type = "class" /\ usage.name \notin defined.classes
          THEN <<XVWarning(usage, "CSS_CLASS_UNDEFINED")>> ELSE <<>>)
         \o
         (IF usage.type = "id" /\ usage.name \notin defined.ids
          THEN <<XVWarning(usage, "CSS_ID_UNDEFINED")>> ELSE <<>>)

\* One iteration of the third loop.
XVCheck(s) ==
    [s EXCEPT !.issues = @ \o UsageIssues(s.usedSelectors[s.k], s.defined), !.k = @ + 1]

\* XVStep checking the usages of each file as soon as its definitions are
\* collected, without the barrier between the loops.
XVStep_Streaming(s) ==
    IF s.pc = "definitions" /\ s.k <= Len(s.files)
    THEN LET d == XVDefinitions(s)
             usage == IF IsMarkupPath(s.files[s.k].path)
                      THEN extractHTMLUsage(s.files[s.k]) ELSE <<>>
         IN [d EXCEPT !.usedSelectors = @ \o usage,
                      !.issues = @ \o Flatten([k \in 1..Len(usage) |->
                                                  UsageIssues(usage[k], d.defined)])]
    ELSE IF s.pc = "definitions" THEN [s EXCEPT !.pc = "usage", !.k = Len(s.files) + 1]
    ELSE IF s.pc = "usage" THEN [s EXCEPT !.pc = "report", !.k = Len(s.usedSelectors) + 1]
    ELSE [s EXCEPT !.pc = "done"]

\* One step of validate, whichever applies.
XVStep(s) ==
    IF s.pc = "definitions"
    THEN IF s.k <= Len(s.files) THEN XVDefinitions(s)
         ELSE [s EXCEPT !.pc = "usage", !.k = 1]
    ELSE IF s.pc = "usage"
    THEN IF s.k <= Len(s.files) THEN XVUsage(s)
         ELSE [s EXCEPT !.pc = "report", !.k = 1]
    ELSE IF s.k <= Len(s.usedSelectors) THEN XVCheck(s)
    ELSE [s EXCEPT !.pc = "done"]

RECURSIVE XVRun(_)
XVRun(s) == IF s.pc = "done" THEN s ELSE XVRun(XVStep(s))

\* HTMLCSSCrossValidator.validate(files)
Validate(files) == XVRun(XVStart(files)).issues

(***************************************************************************)
(* JavaScriptAnalyzer                                                      *)
(***************************************************************************)

\* A script file's content, as acorn.parse answers it: thrown is "none",
\* "SyntaxError", "Error" or "other"; loc is <<>> or <<line, column>>.
Script(thrown, message, loc) == [thrown |-> thrown, message |-> message, loc |-> loc]

\* JavaScriptAnalyzer.analyze(file)
JSAnalyze(file) ==
    LET error == file.content
    IN IF error.thrown = "SyntaxError"
       THEN <<Issue("JS_SYNTAX_ERROR", file.path,
                    IF error.loc # <<>> THEN error.loc[1] ELSE 1,
                    IF error.loc # <<>> THEN error.loc[2] ELSE 0,
                    "error", "acorn", 0, error.message, <<>>)>>
       ELSE IF error.thrown = "Error"
       THEN <<Issue("JS_PARSE_ERROR", file.path, 1, 0, "error", "acorn", 0,
                    error.message, <<>>)>>
       ELSE <<>>

(***************************************************************************)
(* InMemoryAnalyzer                                                        *)
(***************************************************************************)

\* getExtension(filePath)
getExtension(filePath) ==
    LET lastDot == LastIndexOf(filePath, ".")
    IN IF lastDot = -1 THEN <<>> ELSE ToLowerCase(SliceFrom(filePath, lastDot))

\* getAnalyzerForFile(filePath): the first analyzer of the list that supports
\* the extension, or "null".
getAnalyzerForFile(filePath) ==
    LET ext == getExtension(filePath)
    IN IF ext \in {<<".", "j", "s">>, <<".", "m", "j", "s">>} THEN "JavaScriptAnalyzer"
       ELSE IF ext \in {DotHtml, DotHtm} THEN "HTMLAnalyzer"
       ELSE IF ext \in {DotCss} THEN "CSSAnalyzer"
       ELSE "null"

\* analyzer.analyze(file) for the analyzer of the file, nothing without one.
AnalyzeFile(file) ==
    LET analyzer == getAnalyzerForFile(file.path)
    IN IF analyzer = "JavaScriptAnalyzer" THEN JSAnalyze(file)
       ELSE IF analyzer = "HTMLAnalyzer" THEN HTMLAnalyze(file)
       ELSE IF analyzer = "CSSAnalyzer" THEN CSSAnalyze(file)
       ELSE <<>>

\* issues.filter((i) => i.severity === severity).length
SeverityCount(issues, severity) ==
    Cardinality({k \in 1..Len(issues) : issues[k].severity = severity})

\* buildResponse counting the warnings with the filter of the errors.
buildResponse_WarningFilter(issues) ==
    [success |-> TRUE,
     lint |-> [issues |-> issues,
               summary |-> [errorCount |-> SeverityCount(issues, "error"),
                            warningCount |-> SeverityCount(issues, "error"),
                            infoCount |-> SeverityCount(issues, "info")]],
     typecheck |-> [issues |-> <<>>,
                    summary |-> [errorCount |-> 0, warningCount |-> 0, infoCount |-> 0]]]

\* buildResponse(issues)
buildResponse(issues) ==
    [success |-> TRUE,
     lint |-> [issues |-> issues,
               summary |-> [errorCount |-> SeverityCount(issues, "error"),
                            warningCount |-> SeverityCount(issues, "warning"),
                            infoCount |-> SeverityCount(issues, "info")]],
     typecheck |-> [issues |-> <<>>,
                    summary |-> [errorCount |-> 0, warningCount |-> 0, infoCount |-> 0]]]

NoResponse == [success |-> FALSE]

\* The locals of InMemoryAnalyzer.analyze at its entry; k is the position of
\* the loop over the files.
BatchStart(files) ==
    [pc |-> "files", files |-> files, k |-> 1, allIssues |-> <<>>,
     response |-> NoResponse]

\* One iteration of the loop over the files.
BatchFile(s) == [s EXCEPT !.allIssues = @ \o AnalyzeFile(s.files[s.k]), !.k = @ + 1]

\* The loop over the cross validators: there is one.
BatchValidators(s) == [s EXCEPT !.allIssues = @ \o Validate(s.files), !.pc = "respond"]

\* return this.buildResponse(allIssues)
BatchRespond(s) == [s EXCEPT !.response = buildResponse(s.allIssues), !.pc = "done"]

\* One step of analyze, whichever applies.
BatchStep(s) ==
    IF s.pc = "files"
    THEN IF s.k <= Len(s.files) THEN BatchFile(s) ELSE [s EXCEPT !.pc = "validators"]
    ELSE IF s.pc = "validators" THEN BatchValidators(s)
    ELSE BatchRespond(s)

RECURSIVE BatchRun(_)
BatchRun(s) == IF s.pc = "done" THEN s ELSE BatchRun(BatchStep(s))

\* InMemoryAnalyzer.analyze(files)
Analyze(files) == BatchRun(BatchStart(files)).response

(***************************************************************************)
(* Inputs                                                                  *)
(***************************************************************************)

\* The longest stylesheet text the stylesheet analyzer is run on.
MaxCssLen == 5

\* The characters the analyzer tells apart, and one it does not.
CssAlphabet == {"{", "}", "\"", "'", "/", "*", "\\", "\n", "a"}

CssTexts == UNION {[1..n -> CssAlphabet] : n \in 0..MaxCssLen}

StylePath == <<"s", ".", "c", "s", "s">>

Idle == [pc |-> "idle"]

(***************************************************************************)
(* The stylesheet analyzer on one file, a character at a time              *)
(***************************************************************************)

InitCSS ==
    /\ \E content \in CssTexts : css = CSSStart([path |-> StylePath, content |-> content])
    /\ html = Idle
    /\ xv = Idle
    /\ batch = Idle

CSSScanChar ==
    /\ css.pc = "scan"
    /\ ~CSSAtEndOfInput(css)
    /\ ~CSSAtEndOfLine(css)
    /\ css' = CSSChar(css)
    /\ UNCHANGED <<html, xv, batch>>

CSSScanNextLine ==
    /\ css.pc = "scan"
    /\ CSSAtEndOfLine(css)
    /\ css' = CSSNextLine(css)
    /\ UNCHANGED <<html, xv, batch>>

CSSScanEnd ==
    /\ css.pc = "scan"
    /\ CSSAtEndOfInput(css)
    /\ css' = CSSEndOfFile(css)
    /\ UNCHANGED <<html, xv, batch>>

NextCSS == CSSScanChar \/ CSSScanNextLine \/ CSSScanEnd

SpecCSS == InitCSS /\ [][NextCSS]_vars

(***************************************************************************)
(* Stylesheet claims                                                       *)
(***************************************************************************)

\* The lexical reading of a flat text from position k in the given mode
\* ("code", "comment", or the quote that opened a string): the braces met in
\* code mode, and the mode at the end of the text.
RECURSIVE Lex(_, _, _, _)
Lex(text, k, mode, braces) ==
    IF k > Len(text) THEN [braces |-> braces, mode |-> mode]
    ELSE IF mode = "comment"
    THEN IF text[k] = "*" /\ CharAt(text, k) = "/" THEN Lex(text, k + 2, "code", braces)
         ELSE Lex(text, k + 1, mode, braces)
    ELSE IF mode # "code"
    THEN IF text[k] = mode /\ CharAt(text, k - 2) # "\\" THEN Lex(text, k + 1, "code", braces)
         ELSE Lex(text, k + 1, mode, braces)
    ELSE IF text[k] = "/" /\ CharAt(text, k) = "*" THEN Lex(text, k + 2, "comment", braces)
    ELSE IF text[k] \in {"\"", "'"} THEN Lex(text, k + 1, text[k], braces)
    ELSE IF text[k] \in {"{", "}"} THEN Lex(text, k + 1, mode, Append(braces, text[k]))
    ELSE Lex(text, k + 1, mode, braces)

\* The braces of the analyzed text outside strings and block comments.
OutsideBraces == Lex(css.file.content, 1, "code", <<>>).braces

\* Every string and block comment of the analyzed text is terminated.
Terminated == Lex(css.file.content, 1, "code", <<>>).mode = "code"

Occurrences(seq, x, n) == Cardinality({k \in 1..n : seq[k] = x})

\* Equal in number and in valid nesting order.
Balanced(b) ==
    /\ Occurrences(b, "{", Len(b)) = Occurrences(b, "}", Len(b))
    /\ \A n \in 1..Len(b) : Occurrences(b, "{", n) >= Occurrences(b, "}", n)

\* The { of b at p has a matching }.
Matched(b, p) == \E q \in (p + 1)..Len(b) : b[q] = "}" /\ Balanced(SubSeq(b, p, q))

UnmatchedOpens(b) == Cardinality({p \in 1..Len(b) : b[p] = "{" /\ ~Matched(b, p)})

IssuesOf(issues, ruleId) == SelectSeq(issues, LAMBDA x : x.ruleId = ruleId)

BraceIssues(issues) ==
    SelectSeq(issues, LAMBDA x : x.ruleId \in {"CSS_UNEXPECTED_BRACE", "CSS_UNCLOSED_BRACE"})

\* C1 as stated: whenever the braces outside strings and comments are
\* balanced and properly nested, analyze returns no issue at all.
C1_AsStated == css.pc = "done" /\ Balanced(OutsideBraces) => css.issues = <<>>

\* C1, amended: whenever the braces outside strings and comments are balanced
\* and properly nested, analyze returns no brace issue, and it returns no
\* issue at all when every string and comment is terminated as well.
C1_BalancedNoIssue ==
    css.pc = "done" /\ Balanced(OutsideBraces) =>
        /\ BraceIssues(css.issues) = <<>>
        /\ Terminated => css.issues = <<>>

\* A nested, balanced text with a further brace inside a string or comment.
C1_Witness ==
    /\ css.pc = "done"
    /\ Terminated
    /\ Len(OutsideBraces) >= 2
    /\ Balanced(OutsideBraces)
    /\ Cardinality(Positions(css.file.content, "}")) > Occurrences(OutsideBraces, "}", Len(OutsideBraces))
    /\ css.issues = <<>>

\* C2 as stated: with N > 0 more { than } outside strings and comments,
\* analyze returns exactly one unclosed-brace issue, reporting N.
C2_AsStated ==
    LET b == OutsideBraces
        N == Occurrences(b, "{", Len(b)) - Occurrences(b, "}", Len(b))
    IN css.pc = "done" /\ N > 0 =>
           /\ Len(IssuesOf(css.issues, "CSS_UNCLOSED_BRACE")) = 1
           /\ IssuesOf(css.issues, "CSS_UNCLOSED_BRACE")[1].count = N

\* C2, amended: with N > 0 { left without a matching } outside strings and
\* comments, analyze returns exactly one unclosed-brace issue, reporting N;
\* N is the excess of { over } when no } comes at depth 0.
C2_UnclosedCount ==
    LET b == OutsideBraces
        N == UnmatchedOpens(b)
        excess == Occurrences(b, "{", Len(b)) - Occurrences(b, "}", Len(b))
        unclosed == IssuesOf(css.issues, "CSS_UNCLOSED_BRACE")
    IN css.pc = "done" =>
           /\ N > 0 => Len(unclosed) = 1 /\ unclosed[1].count = N
           /\ N > 0 /\ IssuesOf(css.issues, "CSS_UNEXPECTED_BRACE") = <<>> => N = excess

\* Two { stay open after a } at depth 0 and a closed block.
C2_Witness ==
    /\ css.pc = "done"
    /\ UnmatchedOpens(OutsideBraces) = 2
    /\ Len(OutsideBraces) >= 4
    /\ Len(IssuesOf(css.issues, "CSS_UNCLOSED_BRACE")) = 1

\* C3: a text whose first brace outside strings and comments is a } and
\* whose other braces are balanced yields exactly one unexpected-closing-brace
\* error and no unclosed-brace issue, and no other issue at all when its
\* strings and comments are terminated.
C3_OneUnexpectedBrace ==
    LET b == OutsideBraces
    IN css.pc = "done" /\ b # <<>> /\ b[1] = "}" /\ Balanced(Tail(b)) =>
           /\ Len(IssuesOf(css.issues, "CSS_UNEXPECTED_BRACE")) = 1
           /\ IssuesOf(css.issues, "CSS_UNCLOSED_BRACE") = <<>>
           /\ Terminated => Len(css.issues) = 1

\* The spurious } is followed by a nested block.
C3_Witness ==
    /\ css.pc = "done"
    /\ OutsideBraces = <<"}", "{", "{", "}", "}">>
    /\ Len(css.issues) = 1
    /\ css.issues[1].ruleId = "CSS_UNEXPECTED_BRACE"

(***************************************************************************)
(* The markup analyzer on one file, a callback at a time                   *)
(***************************************************************************)

\* The most callbacks the tag-event source makes for one file.
MaxEvents == 4

Div == <<"d", "i", "v">>

TagNames == {Div, <<"D", "I", "V">>, <<"p">>, <<"b", "r">>, <<"B", "R">>}

TextRuns == {<<"a">>, <<"a", "\n", "\n">>}

MarkupPath == <<"m", ".", "h", "t", "m", "l">>

InitHTML ==
    /\ css = Idle
    /\ html = HTMLStart(MarkupPath)
    /\ xv = Idle
    /\ batch = Idle

HTMLDelivers == html.pc = "parse" /\ Len(html.events) < MaxEvents

HTMLOpen ==
    /\ HTMLDelivers
    /\ \E name \in TagNames : html' = HTMLEvent(html, OpenTag(name, <<>>, <<>>))
    /\ UNCHANGED <<css, xv, batch>>

HTMLClose ==
    /\ HTMLDelivers
    /\ \E name \in TagNames : html' = HTMLEvent(html, CloseTag(name))
    /\ UNCHANGED <<css, xv, batch>>

HTMLText ==
    /\ HTMLDelivers
    /\ \E text \in TextRuns : html' = HTMLEvent(html, Text(text))
    /\ UNCHANGED <<css, xv, batch>>

HTMLThrow ==
    /\ html.pc = "parse"
    /\ \E isError \in BOOLEAN : html' = HTMLFail(html, Throw(<<"E">>, isError))
    /\ UNCHANGED <<css, xv, batch>>

HTMLEnd ==
    /\ html.pc = "parse"
    /\ html' = HTMLUnclosed(html)
    /\ UNCHANGED <<css, xv, batch>>

NextHTML == HTMLOpen \/ HTMLClose \/ HTMLText \/ HTMLThrow \/ HTMLEnd

SpecHTML == InitHTML /\ [][NextHTML]_vars

(***************************************************************************)
(* Markup claims                                                           *)
(***************************************************************************)

IsVoid(name) == ToLowerCase(name) \in selfClosingTags

\* The open-tag and close-tag events of non-void elements, in order.
TagEvents(events) ==
    SelectSeq(events, LAMBDA e : e.type \in {"open", "close"} /\ ~IsVoid(e.name))

\* The positions of t at which an open tag is directly followed by its close
\* tag, names compared without regard to case.
AdjacentPairs(t) ==
    {k \in 1..(Len(t) - 1) : /\ t[k].type = "open"
                             /\ t[k + 1].type = "close"
                             /\ ToLowerCase(t[k].name) = ToLowerCase(t[k + 1].name)}

\* t with adjacent open/close pairs removed until none is left.
RECURSIVE Cancel(_)
Cancel(t) ==
    IF AdjacentPairs(t) = {} THEN t
    ELSE LET k == CHOOSE j \in AdjacentPairs(t) : TRUE
         IN Cancel(SubSeq(t, 1, k - 1) \o SubSeq(t, k + 2, Len(t)))

\* Every non-void open tag has exactly one matching close tag, properly nested.
WellNested(events) == Cancel(TagEvents(events)) = <<>>

Delivered(s) == \A k \in 1..Len(s.events) : s.events[k].type # "throw"

\* C4: for every delivered sequence of events in which each non-void open tag
\* has its matching close tag (names compared without regard to case) in
\* proper nesting order, analyze returns no issue and ends with an empty stack.
C4_WellNestedNoIssue ==
    html.pc = "done" /\ Delivered(html) /\ WellNested(html.events) =>
        html.issues = <<>> /\ html.tagStack = <<>>

\* Two nested elements, one closed in another letter case.
C4_Witness ==
    /\ html.pc = "done"
    /\ Delivered(html)
    /\ WellNested(html.events)
    /\ Len(html.events) = 4
    /\ html.events[1].type = "open" /\ html.events[2].type = "open"
    /\ ~IsVoid(html.events[1].name) /\ ~IsVoid(html.events[2].name)
    /\ html.events[4].name # html.events[1].name
    /\ html.issues = <<>>

StackNames(s) == {s.tagStack[k].name : k \in 1..Len(s.tagStack)}

\* The step delivers a close tag of a non-void element that is the name of
\* no frame on the stack.
UnmatchedCloseStep ==
    /\ html.pc = "parse"
    /\ html'.pc = "parse"
    /\ Len(html'.events) = Len(html.events) + 1
    /\ LET e == html'.events[Len(html'.events)]
       IN e.type = "close" /\ ~IsVoid(e.name) /\ ToLowerCase(e.name) \notin StackNames(html)

\* The step adds exactly one issue, of the given rule, and keeps the stack.
AddsOneIssue(ruleId) ==
    /\ Len(html'.issues) = Len(html.issues) + 1
    /\ SubSeq(html'.issues, 1, Len(html.issues)) = html.issues
    /\ html'.issues[Len(html'.issues)].ruleId = ruleId
    /\ html'.issues[Len(html'.issues)].name = html'.events[Len(html'.events)].name
    /\ html'.tagStack = html.tagStack

\* C5 as stated: a close tag of a non-void element that names no frame on the
\* stack adds exactly one unexpected-close issue and keeps the stack, whether
\* the stack is empty or not.
C5_AsStated == [][UnmatchedCloseStep => AddsOneIssue("HTML_UNEXPECTED_CLOSE")]_vars

\* C5, amended: a close tag of a non-void element that names no frame on the
\* stack keeps the stack and adds exactly one issue: an unexpected-close
\* issue when the stack is empty, a mismatched-closing-tag issue otherwise.
C5_UnmatchedClose ==
    [][UnmatchedCloseStep =>
           IF html.tagStack = <<>> THEN AddsOneIssue("HTML_UNEXPECTED_CLOSE")
           ELSE AddsOneIssue("HTML_TAG_MISMATCH")]_vars

\* Such a close tag has been delivered on a stack of two frames, and on an
\* empty stack before that.
C5_Witness ==
    /\ html.pc = "parse"
    /\ Len(html.tagStack) = 2
    /\ Len(html.events) = 4
    /\ html.events[1].type = "close"
    /\ html.events[4].type = "close"
    /\ ~IsVoid(html.events[4].name)
    /\ ToLowerCase(html.events[4].name) \notin StackNames(html)
    /\ Len(html.issues) = 2
    /\ html.issues[1].ruleId = "HTML_UNEXPECTED_CLOSE"
    /\ html.issues[2].ruleId = "HTML_TAG_MISMATCH"

(***************************************************************************)
(* Batches of files                                                        *)
(***************************************************************************)

\* The most files of one batch.
MaxFiles == 2

File(path, content) == [path |-> path, content |-> content]

SheetPath2 == <<"t", ".", "c", "s", "s">>

UpperPath == <<"S", ".", "C", "S", "S">>

MarkupPath2 == <<"n", ".", "h", "t", "m">>

ScriptPath == <<"x", ".", "j", "s">>

PlainPath == <<"n", "o", "t", "e", "s">>

A == <<"a">>

B == <<"b">>

Flex == <<"f", "l", "e", "x">>

PrimaryButton == <<"p", "r", "i", "m", "a", "r", "y", "-", "b", "u", "t", "t", "o", "n">>

VX == <<"v", "-", "x">>

Moustache == <<"{", "{", "x", "}", "}">>

Para == <<"p">>

\* The files batches are drawn from: stylesheets, markup and scripts, files
\* no analyzer supports, and a stylesheet whose extension is in upper case.
FilePool ==
    << File(StylePath, <<"a", "{", "c", "o", "l", "o", "r", ":", "r", "e", "d">>),
       File(StylePath, <<".", "a", "{", "}">>),
       File(SheetPath2, <<"#", "a", "{", "}">>),
       File(SheetPath2, <<".", "b", "{", "}", "#", "f", "l", "e", "x", "{", "}">>),
       File(UpperPath, <<".", "b", "{">>),
       File(MarkupPath, <<OpenTag(Div, <<"a", " ", "b">>, <<>>)>>),
       File(MarkupPath, <<OpenTag(Div, <<"a", " ", "b">>, <<>>), CloseTag(Div)>>),
       File(MarkupPath, <<OpenTag(Div, <<"f", "l", "e", "x", " ", "p", "r", "i", "m", "a", "r", "y", "-", "b", "u", "t", "t", "o", "n">>, A), CloseTag(Div)>>),
       File(MarkupPath2, <<Text(<<"\n">>), OpenTag(Para, <<"b", " ", " ", "b">>, Flex), CloseTag(Div)>>),
       File(MarkupPath, <<StyleBlock(<<".", "b", "{", "}", "#", "a", "{", "}">>)>>),
       File(MarkupPath, <<StyleBlock(<<".", "a", "{", "}">>), OpenTag(<<"b", "r">>, <<>>, VX)>>),
       File(MarkupPath2, <<OpenTag(Para, <<"v", "-", "x", " ", "{", "{", "x", "}", "}">>, Moustache),
                           OpenTag(<<"B", "R">>, <<>>, A), CloseTag(Para)>>),
       File(ScriptPath, Script("none", <<>>, <<>>)),
       File(ScriptPath, Script("SyntaxError", <<"E">>, <<2, 3>>)),
       File(PlainPath, <<".", "a", "{">>) >>

\* A batch, as the positions of its files in the pool.
Batches == UNION {[1..n -> 1..Len(FilePool)] : n \in 0..MaxFiles}

FilesOf(b) == [k \in 1..Len(b) |-> FilePool[b[k]]]

(***************************************************************************)
(* The cross-file validator on one batch, a loop iteration at a time       *)
(***************************************************************************)

InitXV ==
    /\ css = Idle
    /\ html = Idle
    /\ \E b \in Batches : xv = XVStart(FilesOf(b))
    /\ batch = Idle

XVCollectDefinitions ==
    /\ xv.pc = "definitions"
    /\ xv.k <= Len(xv.files)
    /\ xv' = XVStep(xv)
    /\ UNCHANGED <<css, html, batch>>

XVDefinitionsCollected ==
    /\ xv.pc = "definitions"
    /\ xv.k > Len(xv.files)
    /\ xv' = XVStep(xv)
    /\ UNCHANGED <<css, html, batch>>

XVCollectUsage ==
    /\ xv.pc = "usage"
    /\ xv.k <= Len(xv.files)
    /\ xv' = XVStep(xv)
    /\ UNCHANGED <<css, html, batch>>

XVUsageCollected ==
    /\ xv.pc = "usage"
    /\ xv.k > Len(xv.files)
    /\ xv' = XVStep(xv)
    /\ UNCHANGED <<css, html, batch>>

XVCheckUsage ==
    /\ xv.pc = "report"
    /\ xv.k <= Len(xv.usedSelectors)
    /\ xv' = XVStep(xv)
    /\ UNCHANGED <<css, html, batch>>

XVReturn ==
    /\ xv.pc = "report"
    /\ xv.k > Len(xv.usedSelectors)
    /\ xv' = XVStep(xv)
    /\ UNCHANGED <<css, html, batch>>

NextXV ==
    \/ XVCollectDefinitions
    \/ XVDefinitionsCollected
    \/ XVCollectUsage
    \/ XVUsageCollected
    \/ XVCheckUsage
    \/ XVReturn

SpecXV == InitXV /\ [][NextXV]_vars

(***************************************************************************)
(* The orchestrator on one batch, a loop iteration at a time               *)
(***************************************************************************)

InitBatch ==
    /\ css = Idle
    /\ html = Idle
    /\ xv = Idle
    /\ \E b \in Batches : batch = BatchStart(FilesOf(b))

BatchAnalyzeFile ==
    /\ batch.pc = "files"
    /\ batch.k <= Len(batch.files)
    /\ batch' = BatchStep(batch)
    /\ UNCHANGED <<css, html, xv>>

BatchFilesAnalyzed ==
    /\ batch.pc = "files"
    /\ batch.k > Len(batch.files)
    /\ batch' = BatchStep(batch)
    /\ UNCHANGED <<css, html, xv>>

BatchCrossValidate ==
    /\ batch.pc = "validators"
    /\ batch' = BatchStep(batch)
    /\ UNCHANGED <<css, html, xv>>

BatchBuildResponse ==
    /\ batch.pc = "respond"
    /\ batch' = BatchStep(batch)
    /\ UNCHANGED <<css, html, xv>>

NextBatch ==
    \/ BatchAnalyzeFile
    \/ BatchFilesAnalyzed
    \/ BatchCrossValidate
    \/ BatchBuildResponse

SpecBatch == InitBatch /\ [][NextBatch]_vars

(***************************************************************************)
(* Cross-file claims                                                       *)
(***************************************************************************)

\* The number of entries of seq that satisfy Test.
CountOf(seq, Test(_)) == Cardinality({k \in 1..Len(seq) : Test(seq[k])})

\* The issue reports the usage: its name, its file path and its line.
Reports(issue, usage, ruleId) ==
    /\ issue.ruleId = ruleId
    /\ issue.severity = "warning"
    /\ issue.name = usage.name
    /\ issue.filePath = usage.filePath
    /\ issue.line = usage.line

SameUsage(u, v) ==
    u.type = v.type /\ u.name = v.name /\ u.filePath = v.filePath /\ u.line = v.line

\* C6: a class usage yields no issue when its name is defined or matches a
\* suppression pattern, and exactly one class-undefined warning with its file
\* path and line otherwise; an undefined flex never yields a warning and every
\* usage of an undefined primary-button yields one.
C6_ClassWarnings ==
    xv.pc = "done" =>
        /\ \A k \in 1..Len(xv.usedSelectors) :
               LET u == xv.usedSelectors[k]
               IN u.type = "class" =>
                      CountOf(xv.issues, LAMBDA x : Reports(x, u, "CSS_CLASS_UNDEFINED"))
                      = IF u.name \in xv.defined.classes
                           \/ isLikelyDynamicOrFrameworkClass(u.name)
                        THEN 0
                        ELSE CountOf(xv.usedSelectors, LAMBDA v : SameUsage(u, v))
        /\ CountOf(xv.issues, LAMBDA x : x.ruleId = "CSS_CLASS_UNDEFINED" /\ x.name = Flex) = 0
        /\ PrimaryButton \notin xv.defined.classes =>
               CountOf(xv.issues, LAMBDA x : x.ruleId = "CSS_CLASS_UNDEFINED"
                                             /\ x.name = PrimaryButton)
               = CountOf(xv.usedSelectors, LAMBDA v : v.type = "class"
                                                      /\ v.name = PrimaryButton)

\* flex and primary-button are used once each, neither is defined, and the
\* one class warning is for primary-button.
C6_Witness ==
    /\ xv.pc = "done"
    /\ CountOf(xv.usedSelectors, LAMBDA v : v.type = "class" /\ v.name = Flex) = 1
    /\ CountOf(xv.usedSelectors, LAMBDA v : v.type = "class" /\ v.name = PrimaryButton) = 1
    /\ Flex \notin xv.defined.classes
    /\ PrimaryButton \notin xv.defined.classes
    /\ CountOf(xv.issues, LAMBDA x : x.ruleId = "CSS_CLASS_UNDEFINED") = 1
    /\ CountOf(xv.issues, LAMBDA x : x.ruleId = "CSS_CLASS_UNDEFINED"
                                     /\ x.name = PrimaryButton) = 1

\* C7: an id usage whose name is not a defined id yields exactly one
\* id-undefined warning, also when the name matches a suppression pattern;
\* a defined id yields none.
C7_IdWarnings ==
    xv.pc = "done" =>
        /\ \A k \in 1..Len(xv.usedSelectors) :
               LET u == xv.usedSelectors[k]
               IN u.type = "id" =>
                      CountOf(xv.issues, LAMBDA x : Reports(x, u, "CSS_ID_UNDEFINED"))
                      = IF u.name \in xv.defined.ids THEN 0
                        ELSE CountOf(xv.usedSelectors, LAMBDA v : SameUsage(u, v))
        /\ CountOf(xv.issues, LAMBDA x : x.ruleId = "CSS_ID_UNDEFINED")
           = CountOf(xv.usedSelectors, LAMBDA v : v.type = "id"
                                                  /\ v.name \notin xv.defined.ids)

\* An undefined id of template shape is reported next to a defined id that
\* is not.
C7_Witness ==
    /\ xv.pc = "done"
    /\ \E k \in 1..Len(xv.usedSelectors) :
           /\ xv.usedSelectors[k].type = "id"
           /\ xv.usedSelectors[k].name = Moustache
    /\ \E k \in 1..Len(xv.usedSelectors) :
           /\ xv.usedSelectors[k].type = "id"
           /\ xv.usedSelectors[k].name \in xv.defined.ids
    /\ isLikelyDynamicOrFrameworkClass(Moustache)
    /\ CountOf(xv.issues, LAMBDA x : x.ruleId = "CSS_ID_UNDEFINED") = 1
    /\ CountOf(xv.issues, LAMBDA x : x.ruleId = "CSS_ID_UNDEFINED" /\ x.name = Moustache) = 1

NoDefinitions == [classes |-> {}, ids |-> {}]

\* The definitions one file contributes on its own.
FileDefinitions(file) ==
    LET sheet == IF EndsWith(file.path, DotCss)
                 THEN extractCSSDefinitions(file.content, NoDefinitions)
                 ELSE NoDefinitions
        inline == IF EndsWith(file.path, DotHtml) \/ EndsWith(file.path, DotHtm)
                  THEN extractInlineStyles(file.content, NoDefinitions)
                  ELSE NoDefinitions
    IN [classes |-> sheet.classes \cup inline.classes, ids |-> sheet.ids \cup inline.ids]

\* The definitions of the whole batch, whatever the order of its files.
BatchDefinitions(files) ==
    [classes |-> UNION {FileDefinitions(files[k]).classes : k \in 1..Len(files)},
     ids |-> UNION {FileDefinitions(files[k]).ids : k \in 1..Len(files)}]

\* The orders of n files.
Orders(n) == {p \in [1..n -> 1..n] : \A i, j \in 1..n : i # j => p[i] # p[j]}

SameMultiset(s, t) ==
    /\ Len(s) = Len(t)
    /\ \A k \in 1..Len(s) :
           CountOf(s, LAMBDA x : x = s[k]) = CountOf(t, LAMBDA x : x = s[k])

\* C8: no usage is tested before the definitions of every file of the batch
\* are collected; a class defined in any file of the batch, in an inline style
\* block or in a later file, is not reported; and the issues are the same
\* multiset for every order of the files.
C8_Barrier ==
    /\ xv.pc \in {"report", "done"} \/ (xv.pc # "idle" /\ xv.issues # <<>>) =>
           xv.defined = BatchDefinitions(xv.files)
    /\ xv.pc = "done" =>
           /\ \A k \in 1..Len(xv.files) : \A j \in 1..Len(xv.issues) :
                  xv.issues[j].ruleId = "CSS_CLASS_UNDEFINED" =>
                      xv.issues[j].name \notin FileDefinitions(xv.files[k]).classes
           /\ \A p \in Orders(Len(xv.files)) :
                  SameMultiset(xv.issues,
                               Validate([k \in 1..Len(xv.files) |-> xv.files[p[k]]]))

\* The first file uses class b; only an inline style block of the second
\* file, another markup file, defines it; b is not reported.
C8_Witness ==
    /\ xv.pc = "done"
    /\ Len(xv.files) = 2
    /\ IsMarkupPath(xv.files[1].path) /\ IsMarkupPath(xv.files[2].path)
    /\ xv.files[1].path # xv.files[2].path
    /\ \E k \in 1..Len(xv.usedSelectors) :
           /\ xv.usedSelectors[k].type = "class"
           /\ xv.usedSelectors[k].name = B
           /\ xv.usedSelectors[k].filePath = xv.files[1].path
    /\ B \notin FileDefinitions(xv.files[1]).classes
    /\ B \in FileDefinitions(xv.files[2]).classes
    /\ CountOf(xv.issues, LAMBDA x : x.name = B) = 0

(***************************************************************************)
(* Batch claims                                                            *)
(***************************************************************************)

\* The file is the stylesheet with the text a{color:red.
IsOpenRuleSheet(file) ==
    IsStylesheetPath(file.path) /\ file.content = <<"a", "{", "c", "o", "l", "o", "r", ":", "r", "e", "d">>

\* The file is the markup <div class="a b">, read by the tag-event source
\* with or without a close event for the open div at the end of input.
IsDivMarkup(file) ==
    /\ IsMarkupPath(file.path)
    /\ \/ file.content = <<OpenTag(Div, <<"a", " ", "b">>, <<>>)>>
       \/ file.content = <<OpenTag(Div, <<"a", " ", "b">>, <<>>), CloseTag(Div)>>

\* The batch of one such stylesheet and one such markup file.
IsExampleBatch(files) ==
    /\ Len(files) = 2
    /\ \E i, j \in 1..2 : i # j /\ IsOpenRuleSheet(files[i]) /\ IsDivMarkup(files[j])

Merged == batch.response.lint.issues

\* C9 as stated: for that batch the merged issues are exactly one
\* unclosed-brace error and one class-undefined warning, for b.
C9_AsStated ==
    batch.pc = "done" /\ IsExampleBatch(batch.files) =>
        /\ Len(Merged) = 2
        /\ CountOf(Merged, LAMBDA x : x.ruleId = "CSS_UNCLOSED_BRACE") = 1
        /\ CountOf(Merged, LAMBDA x : x.ruleId = "CSS_CLASS_UNDEFINED" /\ x.name = B) = 1

\* C9, amended: for that batch the merged issues are one unclosed-brace error
\* of count 1 from the stylesheet, one class-undefined warning for a and one
\* for b (the selector a defines no class), and nothing else but one
\* unclosed-tag error for div, present exactly when the tag-event source
\* delivers no close event for it.
C9_ExampleBatch ==
    batch.pc = "done" /\ IsExampleBatch(batch.files) =>
        LET closed == \E k \in 1..2 : /\ IsMarkupPath(batch.files[k].path)
                                      /\ Len(batch.files[k].content) = 2
            unclosed == IF closed THEN 0 ELSE 1
        IN /\ CountOf(Merged, LAMBDA x : /\ x.ruleId = "CSS_UNCLOSED_BRACE"
                                         /\ x.count = 1
                                         /\ IsStylesheetPath(x.filePath)) = 1
           /\ CountOf(Merged, LAMBDA x : x.ruleId = "CSS_CLASS_UNDEFINED" /\ x.name = A) = 1
           /\ CountOf(Merged, LAMBDA x : x.ruleId = "CSS_CLASS_UNDEFINED" /\ x.name = B) = 1
           /\ CountOf(Merged, LAMBDA x : x.ruleId = "HTML_UNCLOSED_TAG" /\ x.name = Div)
              = unclosed
           /\ Len(Merged) = 3 + unclosed

\* The example batch has been analyzed, the div left open.
C9_Witness ==
    /\ batch.pc = "done"
    /\ IsExampleBatch(batch.files)
    /\ Len(Merged) = 4

\* The per-file issues in file order, then the cross-file issues.
MergedIssues(files) ==
    Flatten([k \in 1..Len(files) |-> AnalyzeFile(files[k])]) \o Validate(files)

\* C10: the response has success = true, an empty typecheck block with zero
\* counts, the merged issues (per-file issues in file order, then cross-file
\* issues) and, for each severity, the number of merged issues of that
\* severity; the three counts add up to the number of issues.
C10_Response ==
    batch.pc = "done" =>
        LET r == batch.response
            n == r.lint.summary
        IN /\ r.success = TRUE
           /\ r.typecheck = [issues |-> <<>>,
                             summary |-> [errorCount |-> 0, warningCount |-> 0,
                                          infoCount |-> 0]]
           /\ r.lint.issues = MergedIssues(batch.files)
           /\ n.errorCount = Len(SelectSeq(r.lint.issues, LAMBDA x : x.severity = "error"))
           /\ n.warningCount = Len(SelectSeq(r.lint.issues, LAMBDA x : x.severity = "warning"))
           /\ n.infoCount = Len(SelectSeq(r.lint.issues, LAMBDA x : x.severity = "info"))
           /\ n.errorCount + n.warningCount + n.infoCount = Len(r.lint.issues)

\* A response with errors of two files and two warnings of the validator.
C10_Witness ==
    /\ batch.pc = "done"
    /\ batch.response.lint.summary.errorCount = 2
    /\ batch.response.lint.summary.warningCount = 2
    /\ Len(batch.response.lint.issues) = 4
    /\ batch.response.lint.issues[1].filePath # batch.response.lint.issues[2].filePath

(***************************************************************************)
(* One analyzer instance answering a sequence of calls                     *)
(***************************************************************************)

\* The most calls of analyze on one instance.
MaxCalls == 2

\* The most files of a batch in a sequence of calls.
MaxSessionFiles == 1

SessionBatches == UNION {[1..n -> 1..Len(FilePool)] : n \in 0..MaxSessionFiles}

\* NewCall with the issue list kept in the instance from call to call.
NewCall_KeepIssues(prev, files) == [BatchStart(files) EXCEPT !.allIssues = prev.allIssues]

\* analyze(files) entered on an instance whose previous call ended in prev:
\* the instance holds the analyzers and validators only, the issue list is a
\* local of the call.
NewCall(prev, files) == BatchStart(files)

\* The history of the instance: the number of the call and the number of
\* issues the earlier calls returned.
History(calls, before) == [calls |-> calls, before |-> before]

InitSession ==
    /\ css = Idle
    /\ html = Idle
    /\ xv = Idle
    /\ \E b \in SessionBatches : batch = BatchStart(FilesOf(b)) @@ History(1, 0)

SessionCall ==
    /\ batch.pc = "done"
    /\ batch.calls < MaxCalls
    /\ \E b \in SessionBatches :
           batch' = NewCall(batch, FilesOf(b))
                    @@ History(batch.calls + 1, batch.before + Len(batch.allIssues))
    /\ UNCHANGED <<css, html, xv>>

NextSession ==
    \/ BatchAnalyzeFile
    \/ BatchFilesAnalyzed
    \/ BatchCrossValidate
    \/ BatchBuildResponse
    \/ SessionCall

SpecSession == InitSession /\ [][NextSession]_vars

\* C11: the response to a batch is the response the same batch gets from a
\* fresh analysis, whatever batches the instance analyzed before.
C11_Stateless == batch.pc = "done" => batch.response = Analyze(batch.files)

\* A batch without issues is answered after calls that returned issues.
C11_Witness ==
    /\ batch.pc = "done"
    /\ batch.calls = 2
    /\ batch.before > 0
    /\ Len(batch.files) = 1
    /\ batch.response.lint.issues = <<>>
    /\ batch.response = Analyze(batch.files)

(***************************************************************************)
(* Further markup claims                                                   *)
(***************************************************************************)

\* The event the step delivers.
DeliveredEvent == html'.events[Len(html'.events)]

\* The step delivers one event and the analysis goes on.
DeliveryStep ==
    /\ html.pc = "parse"
    /\ html'.pc = "parse"
    /\ Len(html'.events) = Len(html.events) + 1

\* The step delivers a close tag of a non-void element on a non-empty stack.
CloseOnStackStep ==
    /\ DeliveryStep
    /\ DeliveredEvent.type = "close"
    /\ ~IsVoid(DeliveredEvent.name)
    /\ html.tagStack # <<>>

TopFrame(s) == s.tagStack[Len(s.tagStack)]

\* C12: a close tag of a non-void element on a non-empty stack whose name
\* differs, letter case aside, from the top frame's name adds exactly one
\* mismatched-closing-tag error naming the top tag as expected and the found
\* tag, and leaves the stack as it was; a close tag whose name equals the top
\* frame's name pops exactly that frame and adds no issue.
C12_CloseOnStack ==
    [][CloseOnStackStep =>
           IF ToLowerCase(DeliveredEvent.name) # TopFrame(html).name
           THEN /\ html'.tagStack = html.tagStack
                /\ html'.issues =
                       Append(html.issues,
                              HTMLIssue(html, "HTML_TAG_MISMATCH", html.currentLine,
                                        DeliveredEvent.name, TopFrame(html).name))
           ELSE /\ html'.tagStack = SubSeq(html.tagStack, 1, Len(html.tagStack) - 1)
                /\ html'.issues = html.issues]_vars

\* On a stack of div and p, a close tag of div has been reported and has
\* left both frames, and a close tag of p has popped the top frame.
C12_Witness ==
    /\ html.pc = "parse"
    /\ Len(html.events) = 4
    /\ html.events[3].type = "close" /\ ToLowerCase(html.events[3].name) = Div
    /\ html.events[4].type = "close" /\ ToLowerCase(html.events[4].name) = <<"p">>
    /\ Len(html.tagStack) = 1
    /\ html.tagStack[1].name = Div
    /\ Len(html.issues) = 1
    /\ html.issues[1].ruleId = "HTML_TAG_MISMATCH"
    /\ html.issues[1].expected = <<"p">>

\* The open tags left unmatched by the events, as positions in the event
\* history, and the number of close tags that met their open tag on top.
RECURSIVE OpenPositions(_, _, _)
OpenPositions(events, k, st) ==
    IF k > Len(events) THEN st
    ELSE LET e == events[k]
             top == events[st.open[Len(st.open)]]
         IN IF e.type = "open" /\ ~IsVoid(e.name)
            THEN OpenPositions(events, k + 1, [st EXCEPT !.open = Append(@, k)])
            ELSE IF /\ e.type = "close"
                    /\ ~IsVoid(e.name)
                    /\ st.open # <<>>
                    /\ ToLowerCase(top.name) = ToLowerCase(e.name)
            THEN OpenPositions(events, k + 1,
                               [st EXCEPT !.open = SubSeq(@, 1, Len(@) - 1),
                                          !.matched = @ + 1])
            ELSE OpenPositions(events, k + 1, st)

Unmatched(events) == OpenPositions(events, 1, [open |-> <<>>, matched |-> 0])

\* The line the event at position k is delivered on: one more than the
\* newlines of the text delivered before it.
RECURSIVE LineAt(_, _)
LineAt(events, k) ==
    IF k <= 1 THEN 1
    ELSE LineAt(events, k - 1)
         + (IF events[k - 1].type = "text" THEN CountNewlines(events[k - 1].text) ELSE 0)

NonVoidOpens(events) ==
    Len(SelectSeq(events, LAMBDA e : e.type = "open" /\ ~IsVoid(e.name)))

\* C13: at the end of the input the issues end with one unclosed-tag error
\* per open tag left unmatched, bottom of the stack first, each at the line
\* its open tag was delivered on; there is no other unclosed-tag error, and
\* their number is the number of non-void open tags minus the number of close
\* tags that matched the top of the stack.
C13_UnclosedTags ==
    html.pc = "done" =>
        LET u == Unmatched(html.events)
            n == Len(u.open)
            m == Len(html.issues)
        IN /\ n = Len(html.tagStack)
           /\ n = NonVoidOpens(html.events) - u.matched
           /\ m >= n
           /\ Len(IssuesOf(html.issues, "HTML_UNCLOSED_TAG")) = n
           /\ \A k \in 1..n :
                  html.issues[m - n + k] =
                      HTMLIssue(html, "HTML_UNCLOSED_TAG", LineAt(html.events, u.open[k]),
                                ToLowerCase(html.events[u.open[k]].name), <<>>)

\* Two elements opened on different lines are left open at the end of the
\* input, two lines further down.
C13_Witness ==
    /\ html.pc = "done"
    /\ Delivered(html)
    /\ Len(html.events) = 4
    /\ Unmatched(html.events).matched = 0
    /\ html.events[1].type = "open"
    /\ html.events[2].type = "text"
    /\ html.events[3].type = "open"
    /\ html.events[4].type = "text"
    /\ Len(html.issues) = 2
    /\ html.issues[1].ruleId = "HTML_UNCLOSED_TAG" /\ html.issues[1].line = 1
    /\ html.issues[2].ruleId = "HTML_UNCLOSED_TAG" /\ html.issues[2].line = 3
    /\ html.currentLine = 5

\* The step is a failure of the tag-event source.
FailureStep ==
    /\ html.pc = "parse"
    /\ html'.pc = "done"
    /\ Len(html'.events) = Len(html.events) + 1
    /\ DeliveredEvent.type = "throw"

UnclosedIssues(s) ==
    [k \in 1..Len(s.tagStack) |->
        HTMLIssue(s, "HTML_UNCLOSED_TAG", s.tagStack[k].line, s.tagStack[k].name, <<>>)]

\* C14 as stated: when the tag-event source fails, analyze returns the issues
\* of the events delivered before, then exactly one parse-error issue at line
\* 1 carrying the failure's message, then one unclosed-tag issue for every
\* frame on the stack at the failure.
C14_AsStated ==
    [][FailureStep =>
           html'.issues =
               Append(html.issues,
                      HTMLIssue(html, "HTML_PARSE_ERROR", 1, DeliveredEvent.text, <<>>))
               \o UnclosedIssues(html)]_vars

\* The step delivers an open tag or a close tag of a void element.
VoidStep ==
    /\ DeliveryStep
    /\ DeliveredEvent.type \in {"open", "close"}
    /\ IsVoid(DeliveredEvent.name)

\* C17: an open tag or a close tag of a void element, in any letter case,
\* leaves the stack and the issues as they were, whatever the stack holds,
\* and every frame of the stack always holds a lowercased name of a non-void
\* element.
C17_VoidElements ==
    /\ [](\A k \in 1..Len(html.tagStack) :
              /\ html.tagStack[k].name = ToLowerCase(html.tagStack[k].name)
              /\ html.tagStack[k].name \notin selfClosingTags)
    /\ [][VoidStep => /\ html'.tagStack = html.tagStack
                      /\ html'.issues = html.issues
                      /\ html'.currentLine = html.currentLine]_vars

\* A void element has been opened in upper case and closed on an empty
\* stack, and closed again on a stack whose top is a div.
C17_Witness ==
    /\ html.pc = "parse"
    /\ Len(html.events) = 4
    /\ html.events[1].type = "open" /\ html.events[1].name = <<"B", "R">>
    /\ html.events[2].type = "close" /\ IsVoid(html.events[2].name)
    /\ html.events[3].type = "open" /\ html.events[3].name = Div
    /\ html.events[4].type = "close" /\ IsVoid(html.events[4].name)
    /\ html.tagStack = <<[name |-> Div, line |-> 1]>>
    /\ html.issues = <<>>

(***************************************************************************)
(* Further stylesheet claims                                               *)
(***************************************************************************)

RuleIds(issues) == {issues[k].ruleId : k \in 1..Len(issues)}

EndOfFileRules == {"CSS_UNCLOSED_BRACE", "CSS_UNCLOSED_COMMENT", "CSS_UNCLOSED_STRING"}

\* C15 as stated: there is a stylesheet text for which analyze, given it as
\* the content of the file, returns an unclosed-brace, an unclosed-comment and
\* an unclosed-string issue together.
C15_AsStated ==
    \E content \in CssTexts :
        EndOfFileRules
            \subseteq RuleIds(CSSAnalyze([path |-> css.file.path, content |-> content]))

\* C15, amended: the scanner is never inside a string and inside a comment
\* at once, so no text gets an unclosed-comment and an unclosed-string issue
\* together; each end-of-file check fires at most once, exactly when its
\* condition holds at the end of the scan, and the unclosed-brace check fires
\* whether or not one of the other two does.
C15_EndOfFileChecks ==
    /\ ~(css.inString /\ css.inComment)
    /\ css.pc = "done" =>
           /\ ~({"CSS_UNCLOSED_COMMENT", "CSS_UNCLOSED_STRING"} \subseteq RuleIds(css.issues))
           /\ Len(IssuesOf(css.issues, "CSS_UNCLOSED_BRACE")) =
                  (IF css.braceCount > 0 THEN 1 ELSE 0)
           /\ Len(IssuesOf(css.issues, "CSS_UNCLOSED_COMMENT")) =
                  (IF css.inComment THEN 1 ELSE 0)
           /\ Len(IssuesOf(css.issues, "CSS_UNCLOSED_STRING")) =
                  (IF css.inString THEN 1 ELSE 0)

\* A text opens a block, then a string, then writes the opening of a comment
\* and ends: the brace and the string are reported, the comment is not.
C15_Witness ==
    /\ css.pc = "done"
    /\ css.file.content = <<"{", "\"", "/", "*">>
    /\ Len(css.issues) = 2
    /\ css.issues[1].ruleId = "CSS_UNCLOSED_BRACE"
    /\ css.issues[2].ruleId = "CSS_UNCLOSED_STRING"

\* The step scans the character at column i of the current line.
CharStep ==
    /\ css.pc = "scan"
    /\ css'.pc = "scan"
    /\ css'.lineNum = css.lineNum
    /\ css'.i > css.i

ScannedChar == css.lines[css.lineNum + 1][css.i + 1]

\* The } of b at q closes no { before it.
Stray(b, q) == b[q] = "}" /\ ~\E p \in 1..(q - 1) : b[p] = "{" /\ Balanced(SubSeq(b, p, q))

StrayCloses(b) == Cardinality({q \in 1..Len(b) : Stray(b, q)})

\* The number of characters of the file before the character scanned by
\* the step.
ScannedOffset == css.lineNum + css.i + Len(Flatten(SubSeq(css.lines, 1, css.lineNum)))

\* The line (from 1) and the column (from 0) of the character scanned by the
\* step, counted in the text of the file.
ScannedPosition ==
    LET text == SubSeq(css.file.content, 1, ScannedOffset)
    IN [line |-> 1 + CountNewlines(text),
        column |-> ScannedOffset - (LastIndexOf(text, "\n") + 1)]

\* C16: the nesting depth is never negative; the unexpected-closing-brace
\* errors are as many as the } outside strings and comments that close no
\* earlier {; a } scanned outside strings and comments at depth 0 adds one
\* such error at its own line and column and leaves the depth 0; a character
\* scanned inside a string or a comment changes neither depth nor issues.
C16_Depth ==
    /\ [](css.braceCount >= 0)
    /\ [](css.pc = "done" =>
              Len(IssuesOf(css.issues, "CSS_UNEXPECTED_BRACE")) = StrayCloses(OutsideBraces))
    /\ [][CharStep =>
              IF css.inString \/ css.inComment
              THEN css'.braceCount = css.braceCount /\ css'.issues = css.issues
              ELSE IF ScannedChar = "}" /\ css.braceCount = 0
              THEN /\ css'.braceCount = 0
                   /\ css.file.content[ScannedOffset + 1] = "}"
                   /\ css'.issues =
                          Append(css.issues,
                                 Issue("CSS_UNEXPECTED_BRACE", css.file.path,
                                       ScannedPosition.line, ScannedPosition.column, "error",
                                       "css-analyzer", 0, <<>>, <<>>))
              ELSE css'.issues = css.issues]_vars

\* A } on the second line of the file has been reported at column 1, after
\* a } inside a string that runs over the end of the first line.
C16_Witness ==
    /\ css.pc = "done"
    /\ css.file.content = <<"'", "}", "\n", "'", "}">>
    /\ css.braceCount = 0
    /\ Len(css.issues) = 1
    /\ css.issues[1].ruleId = "CSS_UNEXPECTED_BRACE"
    /\ css.issues[1].line = 2
    /\ css.issues[1].column = 1

(***************************************************************************)
(* The cross-file validator on one stylesheet and one markup file          *)
(***************************************************************************)

\* The most tokens of the stylesheet.
MaxSheetTokens == 6

X == <<"x">>

HyphenX == <<"-", "x">>

\* What the stylesheet is written with: a class selector, a class selector
\* whose name starts with a hyphen, an id selector, and the two braces.
SheetTokens == {<<".", "x">>, <<".", "-", "x">>, <<"#", "x">>, <<"{">>, <<"}">>}

SheetTexts == {Flatten(t) : t \in UNION {[1..n -> SheetTokens] : n \in 0..MaxSheetTokens}}

\* <div class="x -x" id="x">
SheetMarkup == File(MarkupPath, <<OpenTag(Div, <<"x", " ", "-", "x">>, X)>>)

InitSheet ==
    /\ css = Idle
    /\ html = Idle
    /\ \E text \in SheetTexts : xv = XVStart(<<File(StylePath, text), SheetMarkup>>)
    /\ batch = Idle

SpecSheet == InitSheet /\ [][NextXV]_vars

(***************************************************************************)
(* Definition extraction claims                                            *)
(***************************************************************************)

\* The content of the stylesheet.
Sheet == xv.files[1].content

\* A warning of the rule for the name is among the issues.
Warned(ruleId, name) ==
    \E k \in 1..Len(xv.issues) : xv.issues[k].ruleId = ruleId /\ xv.issues[k].name = name

\* The names a class pattern captures in s when a name starts with a letter,
\* an underscore or a hyphen and goes on with letters, digits, underscores
\* and hyphens.
RECURSIVE StatedClassNames(_)
StatedClassNames(s) ==
    IF s = <<>> THEN {}
    ELSE IF Head(s) = "." /\ Len(s) >= 2 /\ (IsNameStart(s[2]) \/ s[2] = "-")
    THEN LET n == NameRun(Tail(s))
         IN {SubSeq(s, 2, n + 1)} \cup StatedClassNames(SubSeq(s, n + 2, Len(s)))
    ELSE StatedClassNames(Tail(s))

\* The selector text the extraction parses.
SelectorText(content) ==
    JoinSpace(SelectorScan(StripUrls(StripComments(content)), 1,
                           [depth |-> 0, currentSelector |-> <<>>,
                            selectorBlocks |-> <<>>]).selectorBlocks)

\* C18 as stated: every class selector of a top-level selector segment whose
\* name starts with a letter, an underscore or a hyphen and goes on with
\* letters, digits, underscores and hyphens is in the class definition set,
\* and a markup usage of it is not reported; so for .-x and the usage -x.
C18_AsStated ==
    xv.pc = "done" =>
        \A name \in StatedClassNames(SelectorText(Sheet)) :
            name \in xv.defined.classes /\ ~Warned("CSS_CLASS_UNDEFINED", name)

\* The nesting depth after the first k characters, not clamped.
DepthAfter(text, k) == Occurrences(text, "{", k) - Occurrences(text, "}", k)

\* The positions of the { met at depth 0.
Opening(text) == {p \in 1..Len(text) : text[p] = "{" /\ DepthAfter(text, p - 1) = 0}

\* The text at depth 0, braces aside, between the { at depth 0 before
\* position p, if any, and position p.
TextBefore(text, p) ==
    LET earlier == {q \in Opening(text) : q < p}
        from == IF earlier = {} THEN 0 ELSE CHOOSE q \in earlier : \A r \in earlier : r <= q
        kept == SelectSeq([j \in 1..(p - 1 - from) |-> from + j],
                          LAMBDA q : text[q] \notin {"{", "}"} /\ DepthAfter(text, q - 1) = 0)
    IN [j \in 1..Len(kept) |-> text[kept[j]]]

\* The positions of a set, in ascending order.
RECURSIVE Ascending(_)
Ascending(S) ==
    IF S = {} THEN <<>>
    ELSE LET least == CHOOSE p \in S : \A q \in S : p <= q
         IN <<least>> \o Ascending(S \ {least})

\* The text at depth 0 before each { opened at depth 0, joined by spaces.
TopLevelText(text) ==
    LET opening == Ascending(Opening(text))
    IN JoinSpace([j \in 1..Len(opening) |-> TextBefore(text, opening[j])])

\* C19: the definition sets hold the class and id selectors of the text at
\* depth 0 before a { opened at depth 0 and nothing else: a selector found
\* only in a nested block or only in the text after the last such { is not
\* defined, and a markup usage of a name that is not defined is reported.
C19_TopLevelOnly ==
    xv.pc = "done" =>
        /\ xv.defined.classes = classRegex(TopLevelText(Sheet))
        /\ xv.defined.ids = idRegex(TopLevelText(Sheet))
        /\ \A k \in 1..Len(xv.usedSelectors) :
               LET u == xv.usedSelectors[k]
               IN /\ u.type = "class" /\ u.name \notin classRegex(TopLevelText(Sheet))
                      => Warned("CSS_CLASS_UNDEFINED", u.name)
                  /\ u.type = "id" /\ u.name \notin idRegex(TopLevelText(Sheet))
                      => Warned("CSS_ID_UNDEFINED", u.name)

\* A class rule nested in a block and an id selector that no { follows: both
\* usages are reported.
C19_Witness ==
    /\ xv.pc = "done"
    /\ Sheet = <<"{", ".", "x", "{", "}", "}", "#", "x">>
    /\ xv.defined = NoDefinitions
    /\ Warned("CSS_CLASS_UNDEFINED", X)
    /\ Warned("CSS_ID_UNDEFINED", X)

\* The positions of the } met at depth 0 that are followed, with no brace in
\* between, by a {: the position of that { is given with each.
StrayPairs(text) ==
    {pq \in (1..Len(text)) \X (1..Len(text)) :
        /\ pq[1] < pq[2]
        /\ text[pq[1]] = "}"
        /\ DepthAfter(text, pq[1] - 1) = 0
        /\ text[pq[2]] = "{"
        /\ \A j \in (pq[1] + 1)..(pq[2] - 1) : text[j] \notin {"{", "}"}}

\* The position of the } that closes the block opened at q, or 0.
BlockEnd(text, q) ==
    LET ends == {r \in (q + 1)..Len(text) : DepthAfter(text, r) = DepthAfter(text, q - 1)}
    IN IF ends = {} THEN 0 ELSE CHOOSE r \in ends : \A j \in ends : r <= j

\* C20 as stated: the top-level rule that directly follows a } met at depth
\* 0 contributes no definitions: the definition sets are those of the
\* stylesheet without that rule (the } being met with no selector text
\* pending before it).
C20_AsStated ==
    xv.pc = "done" =>
        \A pq \in StrayPairs(Sheet) :
            LET r == BlockEnd(Sheet, pq[2])
            IN r > 0 /\ TextBefore(Sheet, pq[1]) = <<>> =>
                   xv.defined =
                       extractCSSDefinitions(SubSeq(Sheet, 1, pq[1])
                                             \o SubSeq(Sheet, r + 1, Len(Sheet)),
                                             NoDefinitions)

\* C20, amended: a } met at depth 0, the text after it and the next { are
\* not recorded, and the extraction goes on after that { at depth 0: the
\* definition sets are those of the stylesheet without the }, the text and
\* the {.
C20_StrayClose ==
    xv.pc = "done" =>
        \A pq \in StrayPairs(Sheet) :
            xv.defined =
                extractCSSDefinitions(SubSeq(Sheet, 1, pq[1] - 1)
                                      \o SubSeq(Sheet, pq[2] + 1, Len(Sheet)),
                                      NoDefinitions)

\* After a } at depth 0 the class selector of the next rule is not defined
\* and the id selector of the rule nested in it is.
C20_Witness ==
    /\ xv.pc = "done"
    /\ Sheet = <<"}", ".", "x", "{", "#", "x", "{", "}">>
    /\ xv.defined = [classes |-> {}, ids |-> {X}]
    /\ Warned("CSS_CLASS_UNDEFINED", X)
    /\ ~Warned("CSS_ID_UNDEFINED", X)

====
